---- MODULE Spec2Model ----
(***************************************************************************)
(* Model of the FIFO realized-gain engine (src/app/fifo.py), of the part   *)
(* of the /process handler (src/app/main.py) that feeds it, and of the     *)
(* statement interpreters (src/app/parser.py).                             *)
(*                                                                         *)
(* Numbers: quantities, prices and costs are Python floats in the source.  *)
(* Here they are integers counted in one fixed unit (one share, one        *)
(* currency unit), so every value is a multiple of a unit far above the    *)
(* engine's epsilon 1e-9 and "x > 1e-9" is "x > 0", "x <= 1e-9" is         *)
(* "x <= 0".  Floating-point rounding is outside the model.                *)
(*                                                                         *)
(* Dates: a datetime.date is coded as the integer YYYYMMDD, which orders   *)
(* as dates order; date.year is the integer quotient by 10000.             *)
(*                                                                         *)
(* Objects: Lot is a mutable dataclass.  Lot objects live in a heap (a     *)
(* sequence, the index is the object's identity); a list of lots is a      *)
(* sequence of identities, so two lists can hold the same object.          *)
(***************************************************************************)
EXTENDS Integers, Sequences, FiniteSets, TLC

VARIABLES
    trades,                 \* argument of compute_realized: List[Trade]
    initial_lots,           \* argument: Dict[str, List[Lot]] (symbol -> identities)
    fallback_costs,         \* argument: Dict[str, float]
    target_year,            \* argument: int | None
    fifo,                   \* the heap of Lot objects and the locals of compute_realized
    lots_at_call,           \* history: the heap as it was when the running call was entered
    returned,               \* history: the tuples returned by the calls made so far
    parsed,                 \* process: the parse_pdf result of each uploaded statement
    form_year,              \* process: the target_year form field
    avg_costs,              \* process: the result of _parse_avg_costs
    proc,                   \* process: the handler's position and locals
    text,                   \* parse_pdf: the text of the statement being parsed
    parse                   \* parse_pdf: the interpreter's position and locals

args == <<trades, initial_lots, fallback_costs, target_year>>
request == <<parsed, form_year, avg_costs>>
statement == <<text, parse>>
vars == <<args, fifo, lots_at_call, returned, request, proc, statement>>

----------------------------------------------------------------------------
(* Bounds of the explored inputs *)

MaxTrades == 2
MaxDocs == 2
MaxRows == 1

Symbols == {"AAA"}
SymbolOrder == <<"AAA">>
Accounts == {"ACC1", "ACC2"}
Dates == {20240105, 20250105}
Years == {2024, 2025}
Qtys == {1, 2}
Prices == {1, 3}
Costs == {2, 4}
FallbackValues == {2}
Sides == {"BUY", "SELL"}

----------------------------------------------------------------------------
(* Optional values: Python None and a present value *)

None == <<>>
Some(v) == <<v>>
Val(o) == o[1]

Min(a, b) == IF a <= b THEN a ELSE b

RECURSIVE SeqsUpTo(_, _)
SeqsUpTo(S, n) ==
    IF n = 0 THEN {<<>>}
    ELSE LET shorter == SeqsUpTo(S, n - 1)
         IN  shorter \cup {Append(s, x) : s \in {t \in shorter : Len(t) = n - 1}, x \in S}

----------------------------------------------------------------------------
(* Data model *)

\* parser.Trade; name, currency and source are not read by compute_realized
Trade(acc, sym, d, sd, q, p) ==
    [account_id |-> acc, symbol |-> sym, trade_date |-> d, side |-> sd, qty |-> q, price |-> p]

\* fifo.Lot; acct is a history tag (the account of the trade or holding that
\* created the lot), which no code reads
Lot(q, c, acc) == [qty |-> q, cost |-> c, acct |-> acc]

\* fifo.Realized()
Realized == [gain |-> 0, loss |-> 0]

\* fifo.WarningMsg; the message is the one fixed text of the engine
WarningMsg(sym) == [symbol |-> sym, message |-> "sell exceeds lots, no average cost, used 0"]

\* date.year
YearOf(d) == d \div 10000

\* x > 1e-9 on unit-valued quantities
GtEps(x) == x > 0

----------------------------------------------------------------------------
(* fifo._add_realized *)

AddRealizedNetted(realized, amount) == [realized EXCEPT !.gain = @ + amount]

_add_realized(realized, amount) ==
    IF amount >= 0
    THEN [realized EXCEPT !.gain = @ + amount]
    ELSE [realized EXCEPT !.loss = @ + (0 - amount)]

----------------------------------------------------------------------------
(* sorted(trades, key=lambda t: t.trade_date): a stable sort *)

RECURSIVE InsertByDate(_, _)
InsertByDate(t, s) ==
    IF s = <<>> THEN <<t>>
    ELSE IF s[1].trade_date <= t.trade_date
         THEN <<s[1]>> \o InsertByDate(t, Tail(s))
         ELSE <<t>> \o s

RECURSIVE StableSort(_)
StableSort(ts) ==
    IF ts = <<>> THEN <<>>
    ELSE InsertByDate(ts[Len(ts)], StableSort(SubSeq(ts, 1, Len(ts) - 1)))

Unsorted(ts) == ts

sorted(ts) == StableSort(ts)

----------------------------------------------------------------------------
(* compute_realized, one step at a time.  s is the record of the heap and  *)
(* of the function's locals; tr, fb, ty are its arguments.                 *)

\* dict.setdefault / "if sym not in d: d[sym] = v"
SetDefault(d, k, v) == IF k \in DOMAIN d THEN d ELSE d @@ (k :> v)

GateAlways(ty, trade) == TRUE

\* target_year is None or trade.trade_date.year == target_year
YearGate(ty, trade) == ty = None \/ YearOf(trade.trade_date) = Val(ty)

\* lines 38-43: the copies, the empty results, the sort
Enter(heap, tr, il, fb, ty) ==
    [pc |-> "for",
     heap |-> heap,
     positions |-> [sym \in DOMAIN il |-> il[sym]],
     realized |-> <<>>,
     warnings |-> <<>>,
     missing_cost_symbols |-> {},
     trades_sorted |-> sorted(tr),
     idx |-> 1,
     remaining |-> 0,
     depleted |-> [sym \in Symbols |-> 0]]

CurTrade(s) == s.trades_sorted[s.idx]

\* lines 45-49
Defaults(s) ==
    LET sym == CurTrade(s).symbol
    IN  [s EXCEPT !.positions = SetDefault(@, sym, <<>>),
                  !.realized = SetDefault(@, sym, Realized)]

\* lines 51-53
Buy(s) ==
    LET t == CurTrade(s)
        d == Defaults(s)
        id == Len(s.heap) + 1
    IN  [d EXCEPT !.heap = Append(@, Lot(t.qty, t.price, t.account_id)),
                  !.positions[t.symbol] = Append(@, id),
                  !.idx = @ + 1]

\* lines 55-56
SellStart(s) ==
    [Defaults(s) EXCEPT !.remaining = CurTrade(s).qty, !.pc = "while"]

\* line 57
WhileCond(s) == GtEps(s.remaining) /\ s.positions[CurTrade(s).symbol] # <<>>

LastLot(lots) == lots[Len(lots)]

\* line 58: lot = lots[0]
HeadLot(lots) == lots[1]

\* line 59
Take(remaining, lotqty) == Min(remaining, lotqty)

PopWhenTouched(qty) == TRUE

\* line 64
Exhausted(qty) == ~GtEps(qty)

\* lines 58-65: one pass of the while body
WhileBody(s, ty) ==
    LET t == CurTrade(s)
        sym == t.symbol
        lots == s.positions[sym]
        id == HeadLot(lots)
        take == Take(s.remaining, s.heap[id].qty)
        left == s.heap[id].qty - take
    IN  [s EXCEPT !.realized[sym] =
                      IF YearGate(ty, t)
                      THEN _add_realized(@, (t.price - s.heap[id].cost) * take)
                      ELSE @,
                  !.heap[id].qty = left,
                  !.remaining = @ - take,
                  !.depleted[sym] = @ + take,
                  !.positions[sym] =
                      IF Exhausted(left)
                      THEN Tail(lots)
                      ELSE @]

FallbackCostOfHead(fb, sym) == IF sym \in DOMAIN fb THEN fb[sym] ELSE 1

\* lines 68-69, 80: fallback_costs.get(sym), and 0.0 when that is None
FallbackCost(fb, sym) == IF sym \in DOMAIN fb THEN fb[sym] ELSE 0

\* lines 70-78
AppendWarning(warnings, sym) == Append(warnings, WarningMsg(sym))

FallbackInYearOnly(s, fb, ty) ==
    LET t == CurTrade(s)
        sym == t.symbol
        missing == sym \notin DOMAIN fb /\ YearGate(ty, t)
        fallback == FallbackCost(fb, sym)
    IN  [s EXCEPT !.warnings = IF missing THEN AppendWarning(@, sym) ELSE @,
                  !.missing_cost_symbols = IF missing THEN @ \cup {sym} ELSE @,
                  !.realized[sym] =
                      IF YearGate(ty, t)
                      THEN _add_realized(@, (t.price - fallback) * s.remaining)
                      ELSE @,
                  !.remaining = 0,
                  !.idx = @ + 1,
                  !.pc = "for"]

\* lines 67-83: the sell outran the lots
Fallback(s, fb, ty) ==
    LET t == CurTrade(s)
        sym == t.symbol
        missing == sym \notin DOMAIN fb
        fallback == FallbackCost(fb, sym)
    IN  [s EXCEPT !.warnings = IF missing THEN AppendWarning(@, sym) ELSE @,
                  !.missing_cost_symbols = IF missing THEN @ \cup {sym} ELSE @,
                  !.realized[sym] =
                      IF YearGate(ty, t)
                      THEN _add_realized(@, (t.price - fallback) * s.remaining)
                      ELSE @,
                  !.remaining = 0,
                  !.idx = @ + 1,
                  !.pc = "for"]

\* line 67 false: the next trade
SellDone(s) == [s EXCEPT !.idx = @ + 1, !.pc = "for"]

\* line 85
Result(s) ==
    [realized |-> s.realized,
     warnings |-> s.warnings,
     missing_cost_symbols |-> s.missing_cost_symbols]

\* the step the interpreter takes next in state s
Step(s, fb, ty) ==
    IF s.pc = "for"
    THEN IF s.idx > Len(s.trades_sorted) THEN [s EXCEPT !.pc = "done"]
         ELSE IF CurTrade(s).side = "BUY" THEN Buy(s) ELSE SellStart(s)
    ELSE IF WhileCond(s) THEN WhileBody(s, ty)
         ELSE IF GtEps(s.remaining) THEN Fallback(s, fb, ty)
              ELSE SellDone(s)

RECURSIVE Run(_, _, _)
Run(s, fb, ty) == IF s.pc = "done" THEN s ELSE Run(Step(s, fb, ty), fb, ty)

\* the state in which the loop of line 44 has finished k trades
RECURSIVE RunTrades(_, _, _, _)
RunTrades(s, fb, ty, k) ==
    IF s.pc = "done" \/ (s.pc = "for" /\ s.idx > k) THEN s
    ELSE RunTrades(Step(s, fb, ty), fb, ty, k)

\* the whole call, from a heap and the four arguments
compute_realized(heap, tr, il, fb, ty) == Run(Enter(heap, tr, il, fb, ty), fb, ty)

----------------------------------------------------------------------------
(* What a holder of a dict of lot lists sees: the lots' fields *)

LotsView(heap, d) ==
    [sym \in DOMAIN d |-> [k \in 1..Len(d[sym]) |-> [qty |-> heap[d[sym][k]].qty,
                                                     cost |-> heap[d[sym][k]].cost]]]

RECURSIVE SumQty(_, _)
SumQty(heap, ids) ==
    IF ids = <<>> THEN 0 ELSE heap[ids[1]].qty + SumQty(heap, Tail(ids))

----------------------------------------------------------------------------------------------------------------------------------------
(* Direct calls of compute_realized *)

TradeDomain ==
    {Trade("ACC1", sym, d, sd, q, p) :
        sym \in Symbols, d \in Dates, sd \in Sides, q \in Qtys, p \in Prices}

LotDomain == {Lot(q, c, "ACC1") : q \in Qtys, c \in Costs}

\* per symbol, no opening lot or one
InitialLotChoices == {<<>>} \cup {<<l>> : l \in LotDomain}

TargetYears == {None} \cup {Some(y) : y \in Years}

\* the heap and the dict of a choice ch of lot values per symbol
RECURSIVE HeapOf(_, _)
HeapOf(ch, order) ==
    IF order = <<>> THEN <<>>
    ELSE ch[order[1]] \o HeapOf(ch, Tail(order))

RECURSIVE DictOf(_, _, _)
DictOf(ch, order, base) ==
    IF order = <<>> THEN <<>>
    ELSE LET sym == order[1]
             n == Len(ch[sym])
             rest == DictOf(ch, Tail(order), base + n)
         IN  IF n = 0 THEN rest
             ELSE (sym :> [k \in 1..n |-> base + k]) @@ rest

\* no call of compute_realized is active
Idle(heap) ==
    [pc |-> "idle",
     heap |-> heap,
     positions |-> <<>>,
     realized |-> <<>>,
     warnings |-> <<>>,
     missing_cost_symbols |-> {},
     trades_sorted |-> <<>>,
     idx |-> 1,
     remaining |-> 0,
     depleted |-> [sym \in Symbols |-> 0]]

\* the /process handler is not running
NoProcess ==
    [pc |-> "none",
     year |-> 0,
     account_month_to_holdings |-> <<>>,
     account_trades |-> <<>>,
     order |-> <<>>,
     k |-> 1,
     warnings |-> <<>>,
     rows |-> <<>>,
     cost_missing_symbols |-> {}]

\* no statement is being parsed
NoText == <<>>
NoParse ==
    [pc |-> "none",
     account_id |-> "",
     month |-> None,
     lines |-> <<>>,
     i |-> 1,
     trades |-> <<>>,
     holdings |-> <<>>,
     currency |-> None,
     in_trades |-> FALSE,
     current_symbol |-> None,
     current_side |-> None]

Init ==
    /\ trades \in SeqsUpTo(TradeDomain, MaxTrades)
    /\ \E ch \in [Symbols -> InitialLotChoices] :
          /\ initial_lots = DictOf(ch, SymbolOrder, 0)
          /\ fifo = Idle(HeapOf(ch, SymbolOrder))
    /\ \E keys \in SUBSET Symbols : fallback_costs \in [keys -> FallbackValues]
    /\ target_year \in TargetYears
    /\ lots_at_call = <<>>
    /\ returned = <<>>
    /\ text = NoText
    /\ parse = NoParse
    /\ parsed = <<>>
    /\ form_year = None
    /\ avg_costs = <<>>
    /\ proc = NoProcess

\* a caller calls compute_realized(trades, initial_lots, fallback_costs, target_year)
Call ==
    /\ proc.pc = "none"
    /\ fifo.pc = "idle"
    /\ fifo' = Enter(fifo.heap, trades, initial_lots, fallback_costs, target_year)
    /\ lots_at_call' = fifo.heap
    /\ UNCHANGED <<args, returned, request, statement, proc>>

\* the caller calls it again with the very same objects
CallAgain ==
    /\ proc.pc = "none"
    /\ fifo.pc = "done"
    /\ Len(returned) = 1
    /\ fifo' = Enter(fifo.heap, trades, initial_lots, fallback_costs, target_year)
    /\ lots_at_call' = fifo.heap
    /\ UNCHANGED <<args, returned, request, statement, proc>>

\* line 44, a BUY: lines 45-53
ForBuy ==
    /\ fifo.pc = "for"
    /\ fifo.idx <= Len(fifo.trades_sorted)
    /\ CurTrade(fifo).side = "BUY"
    /\ fifo' = Buy(fifo)
    /\ UNCHANGED <<args, lots_at_call, returned, request, statement, proc>>

\* line 44, a SELL: lines 45-49, 55-56
ForSell ==
    /\ fifo.pc = "for"
    /\ fifo.idx <= Len(fifo.trades_sorted)
    /\ CurTrade(fifo).side # "BUY"
    /\ fifo' = SellStart(fifo)
    /\ UNCHANGED <<args, lots_at_call, returned, request, statement, proc>>

\* lines 57-65, one pass
While ==
    /\ fifo.pc = "while"
    /\ WhileCond(fifo)
    /\ fifo' = WhileBody(fifo, target_year)
    /\ UNCHANGED <<args, lots_at_call, returned, request, statement, proc>>

\* lines 67-83
SellFallback ==
    /\ fifo.pc = "while"
    /\ ~WhileCond(fifo)
    /\ GtEps(fifo.remaining)
    /\ fifo' = Fallback(fifo, fallback_costs, target_year)
    /\ UNCHANGED <<args, lots_at_call, returned, request, statement, proc>>

\* line 67 false
SellEnd ==
    /\ fifo.pc = "while"
    /\ ~WhileCond(fifo)
    /\ ~GtEps(fifo.remaining)
    /\ fifo' = SellDone(fifo)
    /\ UNCHANGED <<args, lots_at_call, returned, request, statement, proc>>

\* line 85
Return ==
    /\ fifo.pc = "for"
    /\ fifo.idx > Len(fifo.trades_sorted)
    /\ returned' = Append(returned, Result(fifo))
    /\ fifo' = [fifo EXCEPT !.pc = "done"]
    /\ UNCHANGED <<args, lots_at_call, request, statement, proc>>

Next ==
    \/ Call
    \/ ForBuy
    \/ ForSell
    \/ While
    \/ SellFallback
    \/ SellEnd
    \/ Return

Spec == Init /\ [][Next]_vars

NextTwice ==
    \/ Call
    \/ CallAgain
    \/ ForBuy
    \/ ForSell
    \/ While
    \/ SellFallback
    \/ SellEnd
    \/ Return

SpecTwice == Init /\ [][NextTwice]_vars

----------------------------------------------------------------------------
(* The /process handler, main.py lines 113-304.  Its input is the list of  *)
(* parse_pdf results; a symbol a parser emits has no "*", no lower-case     *)
(* letter and no blank, so _normalize_symbol leaves it as it is.  The FX    *)
(* columns of a row (lines 228-238) are not modelled.                       *)

\* parser.Holding; name is not read by the lot seeding
Holding(acc, sym, cur, q) == [account_id |-> acc, symbol |-> sym, currency |-> cur, qty |-> q]

\* one parse_pdf result: (month, trades, holdings, account_id)
Doc(month, tr, hs, acc) == [month |-> month, trades |-> tr, holdings |-> hs, account_id |-> acc]

\* dict.get
Get(d, k) == IF k \in DOMAIN d THEN Some(d[k]) ELSE None

\* the truth value of an Optional[float]
Truthy(o) == o # None /\ Val(o) # 0

\* main._cost_lookup: costs.get(account key) or costs.get(wildcard key)
_cost_lookup(costs, account_id, symbol, currency) ==
    IF Truthy(Get(costs, <<account_id, symbol, currency>>))
    THEN Get(costs, <<account_id, symbol, currency>>)
    ELSE Get(costs, <<"*", symbol, currency>>)

\* the fields of report.WarningRow and report.SummaryRow
WarningRowFields == {"symbol", "message"}
SummaryRowFields ==
    {"symbol", "currency", "gain", "loss", "net", "tax_base", "tax_due", "fx_rate",
     "net_cny", "tax_cny", "cost_missing"}

\* the keywords main.py passes to WarningRow(...) and SummaryRow(...)
WarningRowKeywords == {"account_id", "symbol", "message"}
SummaryRowKeywords ==
    {"account_id", "symbol", "symbol_name", "currency", "gain", "loss", "net", "tax_base",
     "tax_due", "fx_rate", "net_cny", "tax_cny", "cost_missing", "cost_missing_reason"}

\* the generated __init__ of a dataclass without defaults takes exactly its
\* fields; any other keyword set raises TypeError
Constructs(fields, keywords) == keywords = fields

WarningRow(acc, sym, msg) == [account_id |-> acc, symbol |-> sym, message |-> msg]
SummaryRow(acc, sym, r, missing) ==
    [account_id |-> acc, symbol |-> sym, gain |-> r.gain, loss |-> r.loss,
     net |-> r.gain - r.loss, cost_missing |-> missing]

\* (y1, m1) < (y2, m2) on tuples
MonthLess(a, b) == a[1] < b[1] \/ (a[1] = b[1] /\ a[2] < b[2])

\* lines 129-148: the target year, or None when the request is rejected
PickYear(docs, form) ==
    LET years == {Val(docs[i].month)[1] : i \in {j \in 1..Len(docs) : docs[j].month # None}}
    IN  IF years = {} THEN None
        ELSE IF form # None THEN form
        ELSE IF Cardinality(years) = 1 THEN Some(CHOOSE y \in years : TRUE)
        ELSE None

OneLedger(account_id) == "ACC1"

\* line 156: the key under which a statement's trades are collected
TradesKey(account_id) == account_id

\* lines 150-156 over the first n statements
RECURSIVE GroupDocs(_, _)
GroupDocs(docs, n) ==
    IF n = 0
    THEN [account_month_to_holdings |-> <<>>, account_trades |-> <<>>, order |-> <<>>]
    ELSE LET g == GroupDocs(docs, n - 1)
             d == docs[n]
             acc == d.account_id
             key == TradesKey(acc)
             old == IF acc \in DOMAIN g.account_month_to_holdings
                    THEN g.account_month_to_holdings[acc] ELSE <<>>
         IN  [account_month_to_holdings |->
                  IF d.month # None
                  THEN (acc :> ((Val(d.month) :> d.holdings) @@ old))
                       @@ g.account_month_to_holdings
                  ELSE g.account_month_to_holdings,
              account_trades |->
                  IF key \in DOMAIN g.account_trades
                  THEN [g.account_trades EXCEPT ![key] = @ \o d.trades]
                  ELSE g.account_trades @@ (key :> d.trades),
              order |->
                  IF key \in DOMAIN g.account_trades THEN g.order ELSE Append(g.order, key)]

\* lines 165-167: the holdings of the account's earliest statement month
InitialHoldings(month_map) ==
    IF DOMAIN month_map = {} THEN <<>>
    ELSE month_map[CHOOSE m \in DOMAIN month_map :
                       \A o \in DOMAIN month_map : o = m \/ MonthLess(m, o)]

\* lines 169-196 over the first n holdings
RECURSIVE Seed(_, _, _, _)
Seed(hs, n, costs, account_id) ==
    IF n = 0
    THEN [heap |-> <<>>, initial_lots |-> <<>>, fallback_costs |-> <<>>,
          warnings |-> <<>>, cost_missing_symbols |-> {}, raised |-> FALSE]
    ELSE LET b == Seed(hs, n - 1, costs, account_id)
             h == hs[n]
             sym == h.symbol
             cost == _cost_lookup(costs, account_id, sym, h.currency)
         IN  IF b.raised \/ h.qty <= 0 THEN b
             ELSE IF cost # None
             THEN [b EXCEPT !.heap = Append(@, Lot(h.qty, Val(cost), h.account_id)),
                            !.initial_lots =
                                (sym :> Append(IF sym \in DOMAIN @ THEN @[sym] ELSE <<>>,
                                               Len(b.heap) + 1)) @@ @,
                            !.fallback_costs = (sym :> Val(cost)) @@ @]
             ELSE IF Constructs(WarningRowFields, WarningRowKeywords)
             THEN [b EXCEPT !.warnings =
                                Append(@, WarningRow(account_id, sym, "holding without cost")),
                            !.cost_missing_symbols = @ \cup {sym}]
             ELSE [b EXCEPT !.raised = TRUE]

\* lines 202-203 and 211-256: the rows of one account
RECURSIVE WarningRows(_, _)
WarningRows(acc, ws) ==
    IF ws = <<>> THEN <<>>
    ELSE <<WarningRow(acc, ws[1].symbol, ws[1].message)>> \o WarningRows(acc, Tail(ws))

RECURSIVE AccountSummary(_, _, _, _)
AccountSummary(acc, order, realized, missing) ==
    IF order = <<>> THEN <<>>
    ELSE (IF order[1] \in DOMAIN realized
          THEN <<SummaryRow(acc, order[1], realized[order[1]], order[1] \in missing)>>
          ELSE <<>>)
         \o AccountSummary(acc, Tail(order), realized, missing)

CurAccount == proc.order[proc.k]

\* lines 113-148
Validate ==
    /\ proc.pc = "start"
    /\ proc' = IF PickYear(parsed, form_year) = None
               THEN [proc EXCEPT !.pc = "rejected"]
               ELSE [proc EXCEPT !.pc = "group", !.year = Val(PickYear(parsed, form_year))]
    /\ UNCHANGED <<args, fifo, lots_at_call, returned, request, statement>>

\* lines 150-156
Group ==
    /\ proc.pc = "group"
    /\ LET g == GroupDocs(parsed, Len(parsed))
       IN  proc' = [proc EXCEPT !.pc = "account",
                                !.account_month_to_holdings = g.account_month_to_holdings,
                                !.account_trades = g.account_trades,
                                !.order = g.order,
                                !.k = 1]
    /\ UNCHANGED <<args, fifo, lots_at_call, returned, request, statement>>

\* lines 164-200 for one account: the opening lots, then the call of compute_realized
SeedLots ==
    /\ proc.pc = "account"
    /\ LET acc == CurAccount
           month_map == IF acc \in DOMAIN proc.account_month_to_holdings
                        THEN proc.account_month_to_holdings[acc] ELSE <<>>
           hs == InitialHoldings(month_map)
           b == Seed(hs, Len(hs), avg_costs, acc)
       IN  IF b.raised
           THEN /\ proc' = [proc EXCEPT !.pc = "raised"]
                /\ UNCHANGED <<args, fifo, lots_at_call>>
           ELSE /\ proc' = [proc EXCEPT !.pc = "fifo",
                                        !.warnings = @ \o b.warnings,
                                        !.cost_missing_symbols = b.cost_missing_symbols]
                /\ trades' = proc.account_trades[acc]
                /\ initial_lots' = b.initial_lots
                /\ fallback_costs' = b.fallback_costs
                /\ target_year' = Some(proc.year)
                /\ fifo' = Enter(b.heap, proc.account_trades[acc], b.initial_lots,
                                 b.fallback_costs, Some(proc.year))
                /\ lots_at_call' = b.heap
    /\ UNCHANGED <<returned, request, statement>>

\* lines 201-256 for one account
AccountRows ==
    /\ proc.pc = "fifo"
    /\ fifo.pc = "done"
    /\ LET res == returned[Len(returned)]
           missing == proc.cost_missing_symbols \cup res.missing_cost_symbols
           more == proc.k < Len(proc.order)
       IN  proc' =
               IF \/ res.warnings # <<>> /\ ~Constructs(WarningRowFields, WarningRowKeywords)
                  \/ DOMAIN res.realized # {}
                         /\ ~Constructs(SummaryRowFields, SummaryRowKeywords)
               THEN [proc EXCEPT !.pc = "raised"]
               ELSE [proc EXCEPT !.pc = IF more THEN "account" ELSE "totals",
                                 !.k = @ + 1,
                                 !.cost_missing_symbols = missing,
                                 !.warnings = @ \o WarningRows(CurAccount, res.warnings),
                                 !.rows = @ \o AccountSummary(CurAccount, SymbolOrder,
                                                              res.realized, missing)]
    /\ fifo' = Idle(fifo.heap)
    /\ UNCHANGED <<args, lots_at_call, returned, request, statement>>

\* lines 258-304: the TOTAL row, the workbook, the preview
Totals ==
    /\ proc.pc = "totals"
    /\ proc' = IF Constructs(SummaryRowFields, SummaryRowKeywords)
               THEN [proc EXCEPT !.pc = "done"]
               ELSE [proc EXCEPT !.pc = "raised"]
    /\ UNCHANGED <<args, fifo, lots_at_call, returned, request, statement>>

Months == {None, Some(<<2024, 1>>), Some(<<2025, 1>>)}
DocTrades(acc) == {Trade(acc, "AAA", 20240105, sd, 2, 3) : sd \in Sides}
DocHoldings(acc) == {Holding(acc, "AAA", "HKD", q) : q \in {0, 2}}
DocDomain ==
    UNION {{Doc(m, tr, hs, acc) : m \in Months,
                                  tr \in SeqsUpTo(DocTrades(acc), 1),
                                  hs \in SeqsUpTo(DocHoldings(acc), 1)} : acc \in Accounts}
AvgKeys == {<<"*", "AAA", "HKD">>}
AvgValues == {2}
FormYears == {None, Some(2024)}

InitProcess ==
    /\ parsed \in SeqsUpTo(DocDomain, MaxDocs)
    /\ form_year \in FormYears
    /\ \E keys \in SUBSET AvgKeys : avg_costs \in [keys -> AvgValues]
    /\ proc = [NoProcess EXCEPT !.pc = "start"]
    /\ trades = <<>>
    /\ initial_lots = <<>>
    /\ fallback_costs = <<>>
    /\ target_year = None
    /\ fifo = Idle(<<>>)
    /\ lots_at_call = <<>>
    /\ returned = <<>>
    /\ text = NoText
    /\ parse = NoParse

NextProcess ==
    \/ Validate
    \/ Group
    \/ SeedLots
    \/ ForBuy
    \/ ForSell
    \/ While
    \/ SellFallback
    \/ SellEnd
    \/ Return
    \/ AccountRows
    \/ Totals

SpecProcess == InitProcess /\ [][NextProcess]_vars

\* /process on one statement of account ACC1, with every combination of an
\* account entry, a wildcard entry and another account's entry in the table
\* of average costs (main.py lines 59-82), a stored cost of 0 included
CostKeys == {<<"ACC1", "AAA", "HKD">>, <<"*", "AAA", "HKD">>, <<"ACC2", "AAA", "HKD">>}
CostValues == {0, 2, 4}
CostDocs ==
    {Doc(m, tr, hs, "ACC1") : m \in Months,
                              tr \in SeqsUpTo(DocTrades("ACC1"), 1),
                              hs \in SeqsUpTo(DocHoldings("ACC1"), 1)}

InitCosts ==
    /\ \E d \in CostDocs : parsed = <<d>>
    /\ form_year \in FormYears
    /\ \E keys \in SUBSET CostKeys : avg_costs \in [keys -> CostValues]
    /\ proc = [NoProcess EXCEPT !.pc = "start"]
    /\ trades = <<>>
    /\ initial_lots = <<>>
    /\ fallback_costs = <<>>
    /\ target_year = None
    /\ fifo = Idle(<<>>)
    /\ lots_at_call = <<>>
    /\ returned = <<>>
    /\ text = NoText
    /\ parse = NoParse

SpecCosts == InitCosts /\ [][NextProcess]_vars

----------------------------------------------------------------------------
(* The statement interpreters, parser.py.                                   *)
(*                                                                          *)
(* A statement text is the record of what the interpreters search it for:   *)
(*   futu     a grammar-B discriminator occurs in the text (line 432)        *)
(*   account  the digits after the account label, or None                   *)
(*   period   the (year, month) of the statement-period label, or None      *)
(*   lines    the non-blank lines, in order                                  *)
(* A line is a record whose kind is its layout; a section marker is a line  *)
(* of its own.  Instrument codes and symbols are sequences of characters,   *)
(* so suffix tests, splits and pattern searches are computed on them.  A    *)
(* number token records whether it is parenthesised and the value of its    *)
(* digits, None when it is not a number.  A date token is <<y, m, d>>.       *)
(* Chinese words of the statements are named by ASCII glosses:              *)
(*   chengjiao_danju 成交单据, hukou_biandong 户口变动, chihuo_jiecun 持货结存, *)
(*   gupiao_jiedai_ziliao 股票借贷资料, zhongyao_tishi 重要提示,               *)
(*   maimai_jiaoyi 买卖交易, xianhuo_cunru 现货存入, xingu 新股,               *)
(*   mairu 买入/買入, mairu_kaicang 买入开仓, maichu 卖出/賣出, guchu 沽出,     *)
(*   maichu_pingcang 卖出平仓/賣出平倉,                                       *)
(*   jiaoyi_gupiao 交易--股票和股票期權, jiaoyi_gupiao_jian 交易--股票和股票期权, *)
(*   jiaoyi_jijin 交易--基金, qichu_gupiao 期初概覽--股票和股票期權,            *)
(*   qichu_gupiao_jian 期初概覽--股票和股票期权, qichu_jijin 期初概覽--基金.    *)

\* parser.Trade with the fields the interpreters fill in (name left out)
StatementTrade(acc, sym, cur, d, sd, q, p, src) ==
    [account_id |-> acc, symbol |-> sym, currency |-> cur, trade_date |-> d,
     side |-> sd, qty |-> q, price |-> p, source |-> src]

Token(paren, digits) == [paren |-> paren, digits |-> digits]

IsDigit(c) == c \in {"0", "1", "2", "3", "4", "5", "6", "7", "8", "9"}
IsUpper(c) ==
    c \in {"A", "B", "C", "D", "E", "F", "G", "H", "I", "J", "K", "L", "M",
           "N", "O", "P", "Q", "R", "S", "T", "U", "V", "W", "X", "Y", "Z"}

\* "".join(cs)
RECURSIVE Join(_)
Join(cs) == IF cs = <<>> THEN "" ELSE cs[1] \o Join(Tail(cs))

\* cs.endswith(suffix), sub in cs, cs.replace(ch, "")
EndsWith(cs, suffix) ==
    Len(cs) >= Len(suffix) /\ SubSeq(cs, Len(cs) - Len(suffix) + 1, Len(cs)) = suffix
Contains(cs, sub) ==
    \E i \in 1..(Len(cs) - Len(sub) + 1) : SubSeq(cs, i, i + Len(sub) - 1) = sub
Without(cs, ch) == SelectSeq(cs, LAMBDA c : c # ch)

\* cs.split(":")[0]
BeforeColon(cs) ==
    IF \E i \in 1..Len(cs) : cs[i] = ":"
    THEN SubSeq(cs, 1, (CHOOSE i \in 1..Len(cs) :
                            cs[i] = ":" /\ \A j \in 1..(i - 1) : cs[j] # ":") - 1)
    ELSE cs

\* re.search(r"\d{6,}[CP]\d{4,}", cs): a C or P with six digits before it and
\* four after it
OptionPattern(cs) ==
    \E i \in 7..(Len(cs) - 4) :
        /\ cs[i] \in {"C", "P"}
        /\ \A j \in (i - 6)..(i - 1) : IsDigit(cs[j])
        /\ \A j \in (i + 1)..(i + 4) : IsDigit(cs[j])

Abs(x) == IF x < 0 THEN 0 - x ELSE x

\* lines 31-42
_parse_number(token) ==
    IF token.digits = None THEN None
    ELSE Some(IF token.paren THEN 0 - Val(token.digits) ELSE Val(token.digits))

DaysIn(y, m) ==
    IF m \in {4, 6, 9, 11} THEN 30
    ELSE IF m # 2 THEN 31
    ELSE IF y % 4 = 0 /\ (y % 100 # 0 \/ y % 400 = 0) THEN 29 ELSE 28

\* lines 45-53: date(y, m, d), None when it raises
_parse_date(token) ==
    IF token[1] \in 1..9999 /\ token[2] \in 1..12 /\ token[3] \in 1..DaysIn(token[1], token[2])
    THEN Some(token[1] * 10000 + token[2] * 100 + token[3])
    ELSE None

\* lines 64-68: the period label, when the text has one
parse_statement_month(t) == t.period

Marker(m) == [kind |-> "marker", marker |-> m]

RECURSIVE FirstMarker(_, _, _)
FirstMarker(lines, markers, i) ==
    IF i > Len(lines) THEN 0
    ELSE IF lines[i].kind = "marker" /\ lines[i].marker \in markers THEN i
    ELSE FirstMarker(lines, markers, i + 1)

\* lines 71-82: the lines after the first start marker, up to the nearest end marker
_extract_section_lines(lines, start_marker, end_markers) ==
    LET a == FirstMarker(lines, {start_marker}, 1)
        sub == SubSeq(lines, a + 1, Len(lines))
        b == FirstMarker(sub, end_markers, 1)
    IN  IF a = 0 THEN <<>>
        ELSE IF b = 0 THEN sub
        ELSE SubSeq(sub, 1, b - 1)

\* lines 85-90
_infer_currency_from_code(code) ==
    IF EndsWith(code, <<":", "H", "K">>) THEN Some("HKD")
    ELSE IF EndsWith(code, <<":", "U", "S">>) THEN Some("USD")
    ELSE None

\* lines 93-95
_normalize_symbol(code) == Join(Without(BeforeColon(code), "*"))

\* lines 98-102
_huatai_account_id(t) ==
    IF t.account # None THEN "HTSC-" \o Val(t.account) ELSE "HTSC-UNKNOWN"

\* lines 131-138: side_map.get(side_cn)
side_map(side_cn) ==
    IF side_cn \in {"mairu", "mairu_kaicang"} THEN Some("BUY")
    ELSE IF side_cn \in {"maichu", "guchu", "maichu_pingcang"} THEN Some("SELL")
    ELSE None

\* lines 113-153: the Trade of one line of the trade-confirmation section, or
\* None.  A "confirmation" line starts with a reference number of 8+ digits;
\* parts is its number of blank-separated columns.
ConfirmationTrade(account_id, line) ==
    IF line.kind # "confirmation" THEN None
    ELSE IF line.parts < 9 THEN None
    ELSE LET settle == _parse_date(line.settle)
             price == _parse_number(line.price)
             qty == _parse_number(line.qty)
             currency == _infer_currency_from_code(line.code)
             side == side_map(line.side)
         IN  IF settle = None \/ price = None \/ qty = None THEN None
             ELSE IF currency = None THEN None
             ELSE IF Contains(line.code, <<":", "F", "U", "N", "D">>) THEN None
             ELSE IF side = None THEN None
             ELSE Some(StatementTrade(account_id, _normalize_symbol(line.code),
                                      Val(currency), Val(settle), Val(side),
                                      Abs(Val(qty)), Val(price),
                                      "chengjiao_danju:" \o line.ref))

\* the code group of lines 160: [A-Z0-9]+:(?:HK|US)
ActivityCode(code) ==
    /\ Len(code) > 3
    /\ EndsWith(code, <<":", "H", "K">>) \/ EndsWith(code, <<":", "U", "S">>)
    /\ \A i \in 1..(Len(code) - 3) : IsUpper(code[i]) \/ IsDigit(code[i])

\* lines 157-162 on an "activity" line (reference number, settle date, trade
\* date, type, side, code, name, @price, quantity): the pattern matches
ActivityPattern(line) ==
    /\ line.kind = "activity"
    /\ line.type = "maimai_jiaoyi"
    /\ line.side \in {"mairu", "guchu", "maichu_pingcang", "mairu_kaicang", "maichu"}
    /\ ActivityCode(line.code)
    /\ ~line.price.paren /\ line.price.digits # None
    /\ line.qty.digits # None

\* lines 164-193: the Trade of one line of the account-activity section, or None
ActivityTrade(account_id, line) ==
    IF ~ActivityPattern(line) THEN None
    ELSE LET trade_date == _parse_date(line.trade)
             side == IF line.side \in {"mairu", "mairu_kaicang"} THEN "BUY" ELSE "SELL"
             currency == _infer_currency_from_code(line.code)
             price == _parse_number(line.price)
             qty == _parse_number(line.qty)
         IN  IF trade_date = None THEN None
             ELSE IF currency = None THEN None
             ELSE IF price = None \/ qty = None THEN None
             ELSE Some(StatementTrade(account_id, _normalize_symbol(line.code),
                                      Val(currency), Val(trade_date), side,
                                      Abs(Val(qty)), Val(price),
                                      "hukou_biandong:" \o line.ref))

\* lines 196-200 on an "activity" line: the deposit pattern matches
DepositPattern(line) ==
    /\ line.kind = "activity"
    /\ line.type = "xianhuo_cunru"
    /\ Len(line.code) \in {4, 5}
    /\ \A i \in 1..Len(line.code) : IsDigit(line.code[i])
    /\ ~line.price.paren /\ line.price.digits # None
    /\ ~line.qty.paren /\ line.qty.digits # None

\* lines 202-231: the Trade of one allotment line, or None
DepositTrade(account_id, line) ==
    IF ~(DepositPattern(line) /\ line.remark \in {"Successful IPO", "xingu"}) THEN None
    ELSE LET trade_date == _parse_date(line.settle)
             price == _parse_number(line.price)
             qty == _parse_number(line.qty)
         IN  IF trade_date = None THEN None
             ELSE IF price = None \/ qty = None THEN None
             ELSE Some(StatementTrade(account_id, Join(line.code), "HKD", Val(trade_date),
                                      "BUY", Abs(Val(qty)), Val(price),
                                      "xianhuo_cunru:" \o line.ref))

EmitUnlessSeen(emitted, t) ==
    IF \E k \in 1..Len(emitted) :
           /\ emitted[k].symbol = t.symbol /\ emitted[k].side = t.side
           /\ emitted[k].qty = t.qty /\ emitted[k].price = t.price
    THEN emitted
    ELSE Append(emitted, t)

\* lines 141, 181, 219 and 381: trades.append(...)
Emit(emitted, t) == Append(emitted, t)

\* lines 254-262: the numbers among the tokens from the first number on
RECURSIVE Numbers(_)
Numbers(tokens) ==
    IF tokens = <<>> THEN <<>>
    ELSE (IF _parse_number(tokens[1]) # None THEN <<Val(_parse_number(tokens[1]))>> ELSE <<>>)
         \o Numbers(Tail(tokens))

\* lines 236-273, one line of the holdings section: h is the pair of the
\* section currency and the holdings emitted so far.  A "market" line is one
\* of the three sub-headings; a "holding" line is a code followed by tokens.
HoldingStep(h, account_id, line) ==
    IF line.kind = "market" /\ line.market = "HK - HONG KONG STOCK"
    THEN [h EXCEPT !.currency = Some("HKD")]
    ELSE IF line.kind = "market" /\ line.market = "US - U.S. STOCK"
    THEN [h EXCEPT !.currency = Some("USD")]
    ELSE IF line.kind = "market" /\ line.market = "FUND - FUND"
    THEN [h EXCEPT !.currency = None]
    ELSE IF h.currency \notin {Some("HKD"), Some("USD")} THEN h
    ELSE IF line.kind # "holding" THEN h
    ELSE IF ~(IsUpper(line.code[1]) \/ IsDigit(line.code[1])) THEN h
    ELSE IF 1 + Len(line.tokens) < 3 THEN h
    ELSE LET code == Without(line.code, "*")
             nums == Numbers(line.tokens)
         IN  IF Len(nums) < 4 THEN h
             ELSE IF OptionPattern(code) THEN h
             ELSE [h EXCEPT !.holdings =
                       Append(@, Holding(account_id, Join(code), Val(h.currency), nums[4]))]

\* lines 278-288 on a sequence of characters
RECURSIVE Collapse(_, _)
Collapse(cs, prev) ==
    IF cs = <<>> THEN <<>>
    ELSE IF cs[1] = prev /\ ~IsDigit(cs[1]) /\ cs[1] \notin {".", ",", "-", "(", ")", "/"}
    THEN Collapse(Tail(cs), prev)
    ELSE <<cs[1]>> \o Collapse(Tail(cs), cs[1])

\* lines 278-288 on a text: of the modelled parts of a line only a symbol can
\* hold the same letter twice in a row
_normalize_duplicated(lines) ==
    [k \in 1..Len(lines) |->
        IF "symbol" \in DOMAIN lines[k]
        THEN [lines[k] EXCEPT !.symbol = Collapse(@, "")]
        ELSE lines[k]]

\* the "(" and ")" of a line: a header "side SYMBOL(name)" has both, a header
\* whose name runs on to the next line has no ")", the rest of such a name
\* has only the ")"
RECURSIVE Opened(_)
Opened(ls) ==
    IF ls = <<>> THEN 0
    ELSE (IF ls[1].kind \in {"header", "position"} THEN 1 ELSE 0) + Opened(Tail(ls))
RECURSIVE Closed(_)
Closed(ls) ==
    IF ls = <<>> THEN 0
    ELSE (IF (ls[1].kind = "header" /\ ls[1].closed) \/ ls[1].kind \in {"position", "rest"}
          THEN 1 ELSE 0) + Closed(Tail(ls))

\* [A-Z0-9.]+
SymbolChars(cs) ==
    cs # <<>> /\ \A i \in 1..Len(cs) : IsUpper(cs[i]) \/ IsDigit(cs[i]) \/ cs[i] = "."

\* line 301: a header left open at the end of the line
OpenHeader(line) ==
    /\ line.kind = "header"
    /\ ~line.closed
    /\ line.side \in {"mairu", "maichu", "maichu_pingcang"}
    /\ SymbolChars(line.symbol)

\* lines 291-307; a merged line is the record of its parts
RECURSIVE _merge_wrapped_lines(_, _)
_merge_wrapped_lines(lines, buffer) ==
    IF lines = <<>>
    THEN IF buffer # <<>> THEN <<[kind |-> "merged", parts |-> buffer]>> ELSE <<>>
    ELSE IF buffer # <<>>
    THEN LET b == Append(buffer, lines[1])
         IN  IF Opened(b) <= Closed(b)
             THEN <<[kind |-> "merged", parts |-> b]>> \o _merge_wrapped_lines(Tail(lines), <<>>)
             ELSE _merge_wrapped_lines(Tail(lines), b)
    ELSE IF OpenHeader(lines[1]) THEN _merge_wrapped_lines(Tail(lines), <<lines[1]>>)
    ELSE <<lines[1]>> \o _merge_wrapped_lines(Tail(lines), <<>>)

\* lines 310-317
_futu_account_id(t) ==
    IF t.account # None THEN "FUTU-" \o Val(t.account) ELSE "FUTU-UNKNOWN"

\* the first yyyy/mm/dd of the lines
RECURSIVE FirstDate(_)
FirstDate(lines) ==
    IF lines = <<>> THEN None
    ELSE IF lines[1].kind = "row" THEN Some(<<lines[1].trade[1], lines[1].trade[2]>>)
    ELSE FirstDate(Tail(lines))

\* lines 324-327: the first "dddd/dd" of the text, the period label when
\* there is one, else the first date of a row
FutuMonth(t) == IF t.period # None THEN t.period ELSE FirstDate(t.lines)

\* marker in line
Mentions(line, markers) ==
    IF line.kind = "merged"
    THEN \E k \in 1..Len(line.parts) :
             line.parts[k].kind = "marker" /\ line.parts[k].marker \in markers
    ELSE line.kind = "marker" /\ line.marker \in markers

\* lines 353 and 359: the line holds a header, closed or open; a merged line
\* begins with one
HeaderOf(line) ==
    IF line.kind = "merged" THEN Some(line.parts[1])
    ELSE IF line.kind = "header" /\ line.side \in {"mairu", "maichu", "maichu_pingcang"}
            /\ SymbolChars(line.symbol)
    THEN Some(line)
    ELSE None

\* lines 366-371 on a "row" line (exchange, currency, trade date, settle
\* date, quantity, price, amount)
RowPattern(line) ==
    /\ line.kind = "row"
    /\ line.exchange \in {"SEHK", "US"}
    /\ line.currency \in {"HKD", "USD", "CNH", "JPY", "SGD"}
    /\ ~line.qty.paren /\ line.qty.digits # None
    /\ ~line.price.paren /\ line.price.digits # None

\* lines 337-393, one merged line: f is the interpreter's state
FutuStep(f, line) ==
    IF Mentions(line, {"jiaoyi_gupiao", "jiaoyi_gupiao_jian"})
    THEN [f EXCEPT !.in_trades = TRUE, !.current_symbol = None, !.current_side = None]
    ELSE IF f.in_trades /\ Mentions(line, {"jiaoyi_jijin"})
    THEN [f EXCEPT !.in_trades = FALSE, !.current_symbol = None, !.current_side = None]
    ELSE IF ~f.in_trades THEN f
    ELSE IF HeaderOf(line) # None
    THEN [f EXCEPT !.current_side =
                       Some(IF Val(HeaderOf(line)).side = "mairu" THEN "BUY" ELSE "SELL"),
                   !.current_symbol = Some(Val(HeaderOf(line)).symbol)]
    ELSE IF RowPattern(line) /\ f.current_symbol # None /\ f.current_side # None
    THEN LET trade_date == _parse_date(line.trade)
             qty == _parse_number(line.qty)
             price == _parse_number(line.price)
             sym == Val(f.current_symbol)
         IN  IF EndsWith(sym, <<".", "U", "S">>) \/ EndsWith(sym, <<".", "H", "K">>)
                \/ OptionPattern(sym)
             THEN f
             ELSE IF trade_date # None /\ qty # None /\ price # None
             THEN [f EXCEPT !.trades =
                       Emit(@, StatementTrade(f.account_id, Join(sym), line.currency,
                                              Val(trade_date), Val(f.current_side),
                                              Abs(Val(qty)), Val(price),
                                              "jiaoyi:" \o Join(sym)))]
             ELSE f
    ELSE f

\* lines 396-406: the opening-positions section, by either spelling of its marker
FutuHoldingLines(lines) ==
    LET ends == {"qichu_jijin", "jiaoyi_gupiao", "jiaoyi_gupiao_jian"}
        first == _extract_section_lines(lines, "qichu_gupiao", ends)
    IN  IF first # <<>> THEN first
        ELSE _extract_section_lines(lines, "qichu_gupiao_jian", ends)

\* lines 407-423, one line: a "position" line is SYMBOL(name), exchange,
\* currency, quantity, price, "-", amount
FutuHolding(account_id, line) ==
    IF /\ line.kind = "position"
       /\ SymbolChars(line.symbol)
       /\ line.exchange \in {"SEHK", "US"}
       /\ line.currency \in {"HKD", "USD", "CNH", "JPY", "SGD"}
       /\ ~line.qty.paren /\ line.qty.digits # None
       /\ ~line.price.paren /\ line.price.digits # None
    THEN Some(Holding(account_id, Join(line.symbol), line.currency,
                      Val(_parse_number(line.qty))))
    ELSE None

----------------------------------------------------------------------------
(* parse_pdf as steps: one action per loop of an interpreter, one line of  *)
(* the loop's list per step                                                 *)

\* lines 428-435, and lines 106-111 or 321-331 of the interpreter chosen
parse_pdf ==
    /\ parse.pc = "start"
    /\ parse' =
           IF text.futu
           THEN LET t == [text EXCEPT !.lines = _normalize_duplicated(@)]
                IN  [parse EXCEPT !.pc = "futu_lines",
                                  !.account_id = _futu_account_id(t),
                                  !.month = FutuMonth(t),
                                  !.lines = _merge_wrapped_lines(t.lines, <<>>),
                                  !.i = 1]
           ELSE [parse EXCEPT !.pc = "confirmations",
                              !.account_id = _huatai_account_id(text),
                              !.month = parse_statement_month(text),
                              !.lines = _extract_section_lines(
                                            text.lines, "chengjiao_danju",
                                            {"hukou_biandong", "chihuo_jiecun"}),
                              !.i = 1]
    /\ UNCHANGED <<args, fifo, lots_at_call, returned, request, proc, text>>

\* parse_huatai lines 112-153, then line 156
Confirmations ==
    /\ parse.pc = "confirmations"
    /\ parse' =
           IF parse.i <= Len(parse.lines)
           THEN LET t == ConfirmationTrade(parse.account_id, parse.lines[parse.i])
                IN  [parse EXCEPT !.trades = IF t = None THEN @ ELSE Emit(@, Val(t)),
                                  !.i = @ + 1]
           ELSE [parse EXCEPT !.pc = "activity",
                              !.lines = _extract_section_lines(
                                            text.lines, "hukou_biandong", {"chihuo_jiecun"}),
                              !.i = 1]
    /\ UNCHANGED <<args, fifo, lots_at_call, returned, request, proc, text>>

\* parse_huatai lines 163-193
Activity ==
    /\ parse.pc = "activity"
    /\ parse' =
           IF parse.i <= Len(parse.lines)
           THEN LET t == ActivityTrade(parse.account_id, parse.lines[parse.i])
                IN  [parse EXCEPT !.trades = IF t = None THEN @ ELSE Emit(@, Val(t)),
                                  !.i = @ + 1]
           ELSE [parse EXCEPT !.pc = "deposits", !.i = 1]
    /\ UNCHANGED <<args, fifo, lots_at_call, returned, request, proc, text>>

\* parse_huatai lines 201-231, then lines 233-235
Deposits ==
    /\ parse.pc = "deposits"
    /\ parse' =
           IF parse.i <= Len(parse.lines)
           THEN LET t == DepositTrade(parse.account_id, parse.lines[parse.i])
                IN  [parse EXCEPT !.trades = IF t = None THEN @ ELSE Emit(@, Val(t)),
                                  !.i = @ + 1]
           ELSE [parse EXCEPT !.pc = "holdings",
                              !.lines = _extract_section_lines(
                                            text.lines, "chihuo_jiecun",
                                            {"gupiao_jiedai_ziliao", "zhongyao_tishi"}),
                              !.currency = None,
                              !.i = 1]
    /\ UNCHANGED <<args, fifo, lots_at_call, returned, request, proc, text>>

\* parse_huatai lines 236-273
HuataiHoldings ==
    /\ parse.pc = "holdings"
    /\ parse' =
           IF parse.i <= Len(parse.lines)
           THEN [HoldingStep(parse, parse.account_id, parse.lines[parse.i])
                    EXCEPT !.i = @ + 1]
           ELSE [parse EXCEPT !.pc = "return"]
    /\ UNCHANGED <<args, fifo, lots_at_call, returned, request, proc, text>>

\* parse_futu lines 337-393, then lines 395-406
FutuLines ==
    /\ parse.pc = "futu_lines"
    /\ parse' =
           IF parse.i <= Len(parse.lines)
           THEN [FutuStep(parse, parse.lines[parse.i]) EXCEPT !.i = @ + 1]
           ELSE [parse EXCEPT !.pc = "futu_holdings",
                              !.lines = FutuHoldingLines(_normalize_duplicated(text.lines)),
                              !.i = 1]
    /\ UNCHANGED <<args, fifo, lots_at_call, returned, request, proc, text>>

\* parse_futu lines 407-423
FutuHoldings ==
    /\ parse.pc = "futu_holdings"
    /\ parse' =
           IF parse.i <= Len(parse.lines)
           THEN LET h == FutuHolding(parse.account_id, parse.lines[parse.i])
                IN  [parse EXCEPT !.holdings = IF h = None THEN @ ELSE Append(@, Val(h)),
                                  !.i = @ + 1]
           ELSE [parse EXCEPT !.pc = "return"]
    /\ UNCHANGED <<args, fifo, lots_at_call, returned, request, proc, text>>

\* lines 275 and 425, and main.py line 127: parsed.append(parse_pdf(path))
ParseReturn ==
    /\ parse.pc = "return"
    /\ parse' = [parse EXCEPT !.pc = "returned"]
    /\ parsed' = Append(parsed, Doc(parse.month, parse.trades, parse.holdings,
                                    parse.account_id))
    /\ UNCHANGED <<args, fifo, lots_at_call, returned, form_year, avg_costs, proc, text>>

\* main.py lines 123-127: the loop over the uploaded statements has ended
Parsed ==
    /\ proc.pc = "parsing"
    /\ parse.pc = "returned"
    /\ proc' = [proc EXCEPT !.pc = "start"]
    /\ UNCHANGED <<args, fifo, lots_at_call, returned, request, statement>>

----------------------------------------------------------------------------
(* The statement texts explored *)

StockCode == <<"A", "A", "A", ":", "H", "K">>
OptionCode ==
    <<"A", "A", "A", "2", "5", "0", "1", "1", "7", "C", "0", "0", "1", "5", ":", "U", "S">>
FundCode == <<"F", "D", ":", "F", "U", "N", "D">>
TradeCodes == {StockCode, OptionCode, FundCode}

\* the quantity columns "2", "(2)", "0" and one that is no number
QtyTokens ==
    {Token(FALSE, Some(2)), Token(TRUE, Some(2)), Token(FALSE, Some(0)), Token(FALSE, None)}
PriceToken == Token(FALSE, Some(3))

ConfirmationLine(ref, settle, side, code, price, qty) ==
    [kind |-> "confirmation", ref |-> ref, parts |-> 9, settle |-> settle, side |-> side,
     code |-> code, price |-> price, qty |-> qty]

ActivityLine(ref, settle, trade, type, side, code, remark, price, qty) ==
    [kind |-> "activity", ref |-> ref, settle |-> settle, trade |-> trade, type |-> type,
     side |-> side, code |-> code, remark |-> remark, price |-> price, qty |-> qty]

Market(m) == [kind |-> "market", market |-> m]
HoldingLine(code, tokens) == [kind |-> "holding", code |-> code, tokens |-> tokens]

\* a holdings line: name, three numbers, the net quantity
HoldingTokens(net) ==
    <<Token(FALSE, None), Token(FALSE, Some(2)), Token(FALSE, Some(0)),
      Token(FALSE, Some(0)), net>>

ConfirmationLines ==
    {ConfirmationLine("10000001", <<2024, 1, 5>>, sd, c, PriceToken, q) :
        sd \in {"mairu", "maichu_pingcang", "cunru"}, c \in TradeCodes, q \in QtyTokens}

ActivityLines ==
    {ActivityLine("10000001", <<2024, 1, 5>>, <<2024, 1, 3>>, "maimai_jiaoyi", sd, c, "",
                  PriceToken, q) :
        sd \in {"mairu", "guchu"}, c \in TradeCodes, q \in QtyTokens}
    \cup
    {ActivityLine("10000002", <<2024, 1, 5>>, <<2024, 1, 5>>, "xianhuo_cunru", "",
                  <<"9", "9", "8", "8">>, remark, PriceToken, q) :
        remark \in {"xingu", ""}, q \in {Token(FALSE, Some(2)), Token(FALSE, Some(0))}}

HoldingBlocks ==
    {<<>>}
    \cup {<<Market(m), HoldingLine(c, HoldingTokens(net))>> :
             m \in {"HK - HONG KONG STOCK", "US - U.S. STOCK"},
             c \in {<<"A", "A", "A">>,
                    <<"A", "A", "A", "2", "5", "0", "1", "1", "7", "C", "0", "0", "1", "5">>},
             net \in {Token(FALSE, Some(2)), Token(FALSE, Some(0))}}
    \cup {<<Market("FUND - FUND"), HoldingLine(<<"F", "D">>, HoldingTokens(Token(FALSE, Some(2))))>>}

\* no line of a section, or one
OneOrNone(S) == {<<>>} \cup {<<l>> : l \in S}

Labels ==
    {[account |-> Some("1"), period |-> Some(<<2024, 1>>)],
     [account |-> None, period |-> None]}

HuataiText(label, confirmations, activity, holdings) ==
    [futu |-> FALSE, account |-> label.account, period |-> label.period,
     lines |-> <<Marker("chengjiao_danju")>> \o confirmations
               \o <<Marker("hukou_biandong")>> \o activity
               \o <<Marker("chihuo_jiecun")>> \o holdings
               \o <<Marker("zhongyao_tishi")>>]

HuataiTexts ==
    {HuataiText(lb, c, a, h) : lb \in Labels, c \in OneOrNone(ConfirmationLines),
                               a \in OneOrNone(ActivityLines), h \in HoldingBlocks}

FutuHeader(side, symbol, closed) ==
    [kind |-> "header", side |-> side, symbol |-> symbol, closed |-> closed]
FutuRest == [kind |-> "rest"]
FutuRow(exchange, currency, trade, settle, qty, price) ==
    [kind |-> "row", exchange |-> exchange, currency |-> currency, trade |-> trade,
     settle |-> settle, qty |-> qty, price |-> price]
FutuPosition(symbol, exchange, currency, qty, price) ==
    [kind |-> "position", symbol |-> symbol, exchange |-> exchange, currency |-> currency,
     qty |-> qty, price |-> price]

FutuStock == <<"A", "A", "A">>
FutuOption == <<"A", "2", "5", "0", "1", "1", "7", "C", "0", "0", "1", "5">>
FutuSuffixed == <<"7", "0", "0", ".", "H", "K">>

FutuRows ==
    {FutuRow("SEHK", "HKD", <<2024, 1, 3>>, <<2024, 1, 5>>, q, PriceToken) :
        q \in {Token(FALSE, Some(2)), Token(TRUE, Some(2)), Token(FALSE, Some(0))}}

FutuTradeBlocks ==
    {<<>>}
    \cup {<<Marker("jiaoyi_gupiao"), FutuHeader(sd, sym, TRUE), r>> :
             sd \in {"mairu", "maichu_pingcang"},
             sym \in {FutuStock, FutuOption, FutuSuffixed}, r \in FutuRows}
    \cup {<<Marker("jiaoyi_gupiao"), FutuHeader(sd, sym, FALSE), FutuRest, r>> :
             sd \in {"mairu", "maichu_pingcang"},
             sym \in {FutuStock, FutuOption, FutuSuffixed}, r \in FutuRows}

FutuFundTrades ==
    {<<>>,
     <<Marker("jiaoyi_jijin"),
       FutuRow("SEHK", "HKD", <<2024, 1, 3>>, <<2024, 1, 5>>, Token(FALSE, Some(2)), PriceToken)>>}

FutuHoldingBlocks ==
    {<<>>}
    \cup {<<Marker(m), FutuPosition(sym, "SEHK", "HKD", q, PriceToken)>> :
             m \in {"qichu_gupiao", "qichu_gupiao_jian"},
             sym \in {FutuStock, FutuOption},
             q \in {Token(FALSE, Some(2)), Token(FALSE, Some(0))}}

FutuFundHoldings ==
    {<<>>,
     <<Marker("qichu_jijin"),
       FutuPosition(<<"F", "D">>, "SEHK", "HKD", Token(FALSE, Some(2)), PriceToken)>>}

FutuTexts ==
    {[futu |-> TRUE, account |-> lb.account, period |-> lb.period,
      lines |-> h \o fh \o t \o ft] :
        lb \in Labels, h \in FutuHoldingBlocks, fh \in FutuFundHoldings,
        t \in FutuTradeBlocks, ft \in FutuFundTrades}

\* direct calls of parse_pdf
InitParse ==
    /\ text \in HuataiTexts \cup FutuTexts
    /\ parse = [NoParse EXCEPT !.pc = "start"]
    /\ parsed = <<>>
    /\ form_year = None
    /\ avg_costs = <<>>
    /\ proc = NoProcess
    /\ trades = <<>>
    /\ initial_lots = <<>>
    /\ fallback_costs = <<>>
    /\ target_year = None
    /\ fifo = Idle(<<>>)
    /\ lots_at_call = <<>>
    /\ returned = <<>>

NextParse ==
    \/ parse_pdf
    \/ Confirmations
    \/ Activity
    \/ Deposits
    \/ HuataiHoldings
    \/ FutuLines
    \/ FutuHoldings
    \/ ParseReturn

SpecParse == InitParse /\ [][NextParse]_vars

\* /process on one grammar-A statement whose trades are of the one stock, a
\* line of each trade section at most MaxRows times
StatementConfirmations ==
    {ConfirmationLine("10000001", <<2024, 1, 5>>, sd, StockCode, PriceToken,
                      Token(FALSE, Some(2))) : sd \in {"mairu", "maichu"}}
StatementActivity ==
    {ActivityLine("10000001", <<2024, 1, 5>>, <<2024, 1, 3>>, "maimai_jiaoyi", sd, StockCode,
                  "", PriceToken, Token(FALSE, Some(2))) : sd \in {"mairu", "guchu"}}
StatementHoldings ==
    {<<>>,
     <<Market("HK - HONG KONG STOCK"),
       HoldingLine(<<"A", "A", "A">>, HoldingTokens(Token(FALSE, Some(2))))>>}

StatementTexts ==
    {HuataiText(lb, c, a, h) : lb \in Labels,
                               c \in SeqsUpTo(StatementConfirmations, MaxRows),
                               a \in SeqsUpTo(StatementActivity, MaxRows),
                               h \in StatementHoldings}

InitStatement ==
    /\ text \in StatementTexts
    /\ parse = [NoParse EXCEPT !.pc = "start"]
    /\ parsed = <<>>
    /\ form_year \in FormYears
    /\ \E keys \in SUBSET AvgKeys : avg_costs \in [keys -> AvgValues]
    /\ proc = [NoProcess EXCEPT !.pc = "parsing"]
    /\ trades = <<>>
    /\ initial_lots = <<>>
    /\ fallback_costs = <<>>
    /\ target_year = None
    /\ fifo = Idle(<<>>)
    /\ lots_at_call = <<>>
    /\ returned = <<>>

NextStatement ==
    \/ parse_pdf
    \/ Confirmations
    \/ Activity
    \/ Deposits
    \/ HuataiHoldings
    \/ ParseReturn
    \/ Parsed
    \/ NextProcess

SpecStatement == InitStatement /\ [][NextStatement]_vars

----------------------------------------------------------------------------
(* Claims about compute_realized *)

InCall == fifo.pc \in {"for", "while"}
Sym == CurTrade(fifo).symbol
Queue == fifo.positions[Sym]
QueueView(s, sym) ==
    IF sym \in DOMAIN s.positions
    THEN [k \in 1..Len(s.positions[sym]) |->
             [qty |-> s.heap[s.positions[sym][k]].qty, cost |-> s.heap[s.positions[sym][k]].cost]]
    ELSE <<>>
Net(r) == r.gain - r.loss
GateOpen == target_year = None \/ YearOf(CurTrade(fifo).trade_date) = Val(target_year)

\* C1, one pass of the sell loop: the pass takes min(remaining, head quantity)
\* from the head lot and from no other lot, the head leaves the queue exactly
\* when it is used up, a head that is not used up ends the sell (so a later
\* lot is touched only once every earlier one is gone), and the realized
\* amount moves by (sell price - head cost) * taken.
C1_Pass ==
    (fifo.pc = "while" /\ GtEps(fifo.remaining) /\ Queue # <<>>) =>
        LET t == CurTrade(fifo)
            id == Queue[1]
            taken == Min(fifo.remaining, fifo.heap[id].qty)
        IN  /\ fifo'.remaining = fifo.remaining - taken
            /\ fifo'.heap[id].qty = fifo.heap[id].qty - taken
            /\ \A j \in 1..Len(fifo.heap) : j # id => fifo'.heap[j] = fifo.heap[j]
            /\ fifo'.positions[Sym] = IF fifo'.heap[id].qty = 0 THEN Tail(Queue) ELSE Queue
            /\ fifo'.heap[id].qty > 0 => fifo'.remaining = 0
            /\ GateOpen =>
                   Net(fifo'.realized[Sym]) =
                       Net(fifo.realized[Sym]) + (t.price - fifo.heap[id].cost) * taken

\* C1, the example of the specification: lots [10@1, 5@2], a sell of 12 at 3
C1_Example ==
    LET s == compute_realized(<<Lot(10, 1, "ACC1"), Lot(5, 2, "ACC1")>>,
                              <<Trade("ACC1", "AAA", 20240105, "SELL", 12, 3)>>,
                              "AAA" :> <<1, 2>>, <<>>, None)
    IN  /\ s.realized["AAA"] = [gain |-> 22, loss |-> 0]
        /\ QueueView(s, "AAA") = <<[qty |-> 3, cost |-> 2]>>

\* C1: every SELL consumes the symbol's lot queue strictly oldest-first
C1_FifoOrder == [][C1_Pass]_vars /\ [](C1_Example)

\* C1 witness: a sell of 2 at 3 has used up the opening lot 1@2 and taken 1
\* of the later lot 2@1: gain 1*(3-2) + 1*(3-1) = 3, one lot 1@1 left
C1_Witness ==
    /\ fifo.pc = "done"
    /\ proc.pc = "none"
    /\ LotsView(lots_at_call, initial_lots) = ("AAA" :> <<[qty |-> 1, cost |-> 2]>>)
    /\ trades = <<Trade("ACC1", "AAA", 20240105, "BUY", 2, 1),
                  Trade("ACC1", "AAA", 20250105, "SELL", 2, 3)>>
    /\ target_year = None
    /\ fifo.realized["AAA"] = [gain |-> 3, loss |-> 0]
    /\ QueueView(fifo, "AAA") = <<[qty |-> 1, cost |-> 1]>>

Started == fifo.pc \in {"for", "while", "done"}

\* the lot queues the call would hold after its first k trades under target year ty
QueuesAfter(ty, k) ==
    LET s == RunTrades(Enter(lots_at_call, trades, initial_lots, fallback_costs, ty),
                       fallback_costs, ty, k)
    IN  [sym \in Symbols |-> QueueView(s, sym)]

\* C2, depletion is not year-gated: after every trade the lot queues are the
\* ones every other value of target_year would have produced
C2_SameQueues ==
    fifo.pc \in {"for", "done"} =>
        \A ty \in TargetYears :
            QueuesAfter(ty, fifo.idx - 1) = [sym \in Symbols |-> QueueView(fifo, sym)]

\* C2, the accumulator is year-gated: no step of a SELL dated outside a
\* specified target year changes any RealizedAccumulator
C2_Gated ==
    (fifo.pc = "while" /\ target_year # None
        /\ YearOf(CurTrade(fifo).trade_date) # Val(target_year)) =>
        fifo'.realized = fifo.realized

\* C2: lot depletion is the same for every target_year, while a SELL of another
\* year leaves the RealizedAccumulator unchanged
C2_YearGating == [](C2_SameQueues) /\ [][C2_Gated]_vars

\* C2 witness: target year 2025, opening lot 2@2; the 2024 sell of 1 realized
\* nothing but left 1@2, so the 2025 sell of 2 at 3 found one share in the
\* queue and one without a lot: gain 1*(3-2) + 1*3 = 4
C2_Witness ==
    /\ fifo.pc = "done"
    /\ proc.pc = "none"
    /\ target_year = Some(2025)
    /\ LotsView(lots_at_call, initial_lots) = ("AAA" :> <<[qty |-> 2, cost |-> 2]>>)
    /\ trades = <<Trade("ACC1", "AAA", 20240105, "SELL", 1, 3),
                  Trade("ACC1", "AAA", 20250105, "SELL", 2, 3)>>
    /\ fallback_costs = <<>>
    /\ fifo.realized["AAA"] = [gain |-> 4, loss |-> 0]

RECURSIVE SumView(_)
SumView(q) == IF q = <<>> THEN 0 ELSE q[1].qty + SumView(Tail(q))

RECURSIVE SumSide(_, _, _, _)
SumSide(ts, n, sym, sd) ==
    IF n = 0 THEN 0
    ELSE SumSide(ts, n - 1, sym, sd)
         + (IF ts[n].symbol = sym /\ ts[n].side = sd THEN ts[n].qty ELSE 0)

Seeded(sym) ==
    IF sym \in DOMAIN initial_lots THEN SumQty(lots_at_call, initial_lots[sym]) ELSE 0
Open(sym) == SumView(QueueView(fifo, sym))
\* trades 1..idx-1 are finished; in the sell loop, trade idx is a SELL under way
Bought(sym) == SumSide(fifo.trades_sorted, fifo.idx - 1, sym, "BUY")
SoldOrSelling(sym) ==
    SumSide(fifo.trades_sorted, IF fifo.pc = "while" THEN fifo.idx ELSE fifo.idx - 1, sym, "SELL")

\* C3: the quantity taken out of lots equals seeded + bought - open, for every
\* symbol at every point of a call; it never exceeds the quantity sold (the
\* rest of a sell is matched against the fallback cost, not a lot); no lot
\* has a negative quantity
C3_Conserved ==
    Started =>
        /\ \A sym \in Symbols :
              /\ fifo.depleted[sym] + Open(sym) = Seeded(sym) + Bought(sym)
              /\ fifo.depleted[sym] <= SoldOrSelling(sym)
        /\ \A j \in 1..Len(fifo.heap) : fifo.heap[j].qty >= 0

\* C3 witness: a finished call in which a sell took the opening lot, matched
\* its rest against the fallback, and a later buy is still open
C3_Witness ==
    /\ fifo.pc = "done"
    /\ proc.pc = "none"
    /\ Seeded("AAA") = 1
    /\ fifo.depleted["AAA"] = 1
    /\ SoldOrSelling("AAA") = 2
    /\ Open("AAA") = 2

\* C4, the step taken when a sell outran the lots
C4_Step ==
    (fifo.pc = "while" /\ ~(GtEps(fifo.remaining) /\ Queue # <<>>) /\ fifo.remaining > 0) =>
        LET t == CurTrade(fifo)
            r == fifo.remaining
        IN  /\ fifo'.pc = "for"
            /\ fifo'.idx = fifo.idx + 1
            /\ IF Sym \notin DOMAIN fallback_costs
               THEN /\ fifo'.warnings = Append(fifo.warnings, WarningMsg(Sym))
                    /\ fifo'.missing_cost_symbols = fifo.missing_cost_symbols \cup {Sym}
                    /\ GateOpen =>
                           Net(fifo'.realized[Sym]) = Net(fifo.realized[Sym]) + t.price * r
               ELSE /\ fifo'.warnings = fifo.warnings
                    /\ fifo'.missing_cost_symbols = fifo.missing_cost_symbols
                    /\ GateOpen =>
                           Net(fifo'.realized[Sym]) =
                               Net(fifo.realized[Sym]) + (t.price - fallback_costs[Sym]) * r

\* C4, no other step of a call warns or marks a symbol
C4_Else ==
    (InCall /\ ~(fifo.pc = "while" /\ ~(GtEps(fifo.remaining) /\ Queue # <<>>)
                    /\ fifo.remaining > 0)) =>
        /\ fifo'.warnings = fifo.warnings
        /\ fifo'.missing_cost_symbols = fifo.missing_cost_symbols

\* C4: a sell that outruns the lots is matched against the fallback cost, or
\* against 0 with exactly one Warning and the missing-cost mark when the symbol
\* has none, and the call goes on with the next trade
C4_Fallback == [][C4_Step /\ C4_Else]_vars

\* C4 witness: the first trade sold 2 at 3 from an empty queue with no
\* fallback cost (gain 6, one Warning, symbol marked); the second trade was
\* processed after it
C4_Witness ==
    /\ fifo.pc = "done"
    /\ proc.pc = "none"
    /\ initial_lots = <<>>
    /\ fallback_costs = <<>>
    /\ target_year = None
    /\ trades = <<Trade("ACC1", "AAA", 20240105, "SELL", 2, 3),
                  Trade("ACC1", "AAA", 20250105, "BUY", 1, 1)>>
    /\ fifo.warnings = <<WarningMsg("AAA")>>
    /\ fifo.missing_cost_symbols = {"AAA"}
    /\ fifo.realized["AAA"] = [gain |-> 6, loss |-> 0]
    /\ QueueView(fifo, "AAA") = <<[qty |-> 1, cost |-> 1]>>

Perms(n) == {p \in [1..n -> 1..n] : \A i, j \in 1..n : p[i] = p[j] => i = j}
Permuted(ts, p) == [i \in 1..Len(ts) |-> ts[p[i]]]
KeepsTies(ts, p) ==
    \A i, j \in 1..Len(ts) :
        (i < j /\ ts[p[i]].trade_date = ts[p[j]].trade_date) => p[i] < p[j]
ResultOf(tr) ==
    Result(compute_realized(lots_at_call, tr, initial_lots, fallback_costs, target_year))

\* C5 as claimed: every permutation of the input list yields the same realized
\* values, warnings and missing-cost set
C5_AnyOrder ==
    (fifo.pc = "done" /\ proc.pc = "none") =>
        \A p \in Perms(Len(trades)) : ResultOf(Permuted(trades, p)) = Result(fifo)

\* C5 amended: every permutation of the input list that keeps trades of equal
\* trade date in their relative order yields the same realized values,
\* warnings and missing-cost set
C5_OrderUpToTies ==
    (fifo.pc = "done" /\ proc.pc = "none") =>
        \A p \in Perms(Len(trades)) :
            KeepsTies(trades, p) => ResultOf(Permuted(trades, p)) = Result(fifo)

\* C5 witness: the list arrived with the 2025 sell before the 2024 buy, and
\* the call matched the sell against the lot of the buy
C5_Witness ==
    /\ fifo.pc = "done"
    /\ proc.pc = "none"
    /\ initial_lots = <<>>
    /\ target_year = None
    /\ trades = <<Trade("ACC1", "AAA", 20250105, "SELL", 2, 3),
                  Trade("ACC1", "AAA", 20240105, "BUY", 2, 1)>>
    /\ fifo.realized["AAA"] = [gain |-> 4, loss |-> 0]
    /\ fifo.warnings = <<>>

\* C7 as claimed: a call leaves the caller's initial_lots as they were, and a
\* second call with the same object returns the realized values of the first
C7_Private ==
    /\ fifo.pc = "done" =>
           LotsView(fifo.heap, initial_lots) = LotsView(lots_at_call, initial_lots)
    /\ Len(returned) = 2 => returned[2].realized = returned[1].realized

\* C7, the second half alone
C7_SecondCall == Len(returned) = 2 => returned[2].realized = returned[1].realized

\* C8, the accumulators are never negative
C8_NonNeg ==
    \A sym \in DOMAIN fifo.realized :
        fifo.realized[sym].gain >= 0 /\ fifo.realized[sym].loss >= 0

\* C8, within a call no accumulator decreases
C8_Monotone ==
    InCall =>
        \A sym \in DOMAIN fifo.realized :
            /\ sym \in DOMAIN fifo'.realized
            /\ fifo'.realized[sym].gain >= fifo.realized[sym].gain
            /\ fifo'.realized[sym].loss >= fifo.realized[sym].loss

\* the contribution c of a step goes to gain when c >= 0, to loss otherwise
Contributes(c) ==
    IF c >= 0
    THEN fifo'.realized[Sym] = [gain |-> fifo.realized[Sym].gain + c,
                                loss |-> fifo.realized[Sym].loss]
    ELSE fifo'.realized[Sym] = [gain |-> fifo.realized[Sym].gain,
                                loss |-> fifo.realized[Sym].loss + (0 - c)]

\* C8, each per-lot or fallback contribution of a sell in the reported year
C8_Separate ==
    (fifo.pc = "while" /\ fifo.remaining > 0 /\ GateOpen) =>
        IF Queue # <<>>
        THEN Contributes((CurTrade(fifo).price - fifo.heap[Queue[1]].cost)
                         * Min(fifo.remaining, fifo.heap[Queue[1]].qty))
        ELSE Contributes((CurTrade(fifo).price
                          - (IF Sym \in DOMAIN fallback_costs THEN fallback_costs[Sym] ELSE 0))
                         * fifo.remaining)

\* C8: gain and loss are accumulated separately, never netted: both are >= 0
\* and non-decreasing, and each contribution goes to one of them by its sign
C8_NeverNetted == [](C8_NonNeg) /\ [][C8_Monotone /\ C8_Separate]_vars

\* C8 witness: one SELL of 2 at 3 over the opening lot 1@4 and the bought lot
\* 1@1 has raised both: loss 1 and gain 2
C8_Witness ==
    /\ fifo.pc = "done"
    /\ proc.pc = "none"
    /\ LotsView(lots_at_call, initial_lots) = ("AAA" :> <<[qty |-> 1, cost |-> 4]>>)
    /\ trades = <<Trade("ACC1", "AAA", 20240105, "BUY", 1, 1),
                  Trade("ACC1", "AAA", 20250105, "SELL", 2, 3)>>
    /\ target_year = None
    /\ fifo.realized["AAA"] = [gain |-> 2, loss |-> 1]

----------------------------------------------------------------------------
(* Claims about /process *)

\* C6: while compute_realized runs for an account, every trade it was given
\* and every lot in every queue (seeded from a holding or appended by a BUY)
\* belongs to that account, and the call started from accumulators of its own
C6_PerAccount ==
    proc.pc = "fifo" =>
        /\ \A i \in 1..Len(fifo.trades_sorted) :
               fifo.trades_sorted[i].account_id = CurAccount
        /\ \A sym \in DOMAIN fifo.positions :
               \A k \in 1..Len(fifo.positions[sym]) :
                   fifo.heap[fifo.positions[sym][k]].acct = CurAccount
        /\ \A sym \in DOMAIN fifo.realized :
               \E i \in 1..Len(fifo.trades_sorted) :
                   /\ fifo.trades_sorted[i].symbol = sym
                   /\ fifo.trades_sorted[i].account_id = CurAccount

\* C6 witness: ACC1 holds 2 AAA with a known cost and was computed first;
\* the SELL of AAA in ACC2 found no lot and took the zero-cost fallback
C6_Witness ==
    /\ proc.pc = "fifo"
    /\ fifo.pc = "done"
    /\ proc.order = <<"ACC1", "ACC2">>
    /\ proc.k = 2
    /\ avg_costs # <<>>
    /\ "ACC1" \in DOMAIN proc.account_month_to_holdings
    /\ InitialHoldings(proc.account_month_to_holdings["ACC1"])
           = <<Holding("ACC1", "AAA", "HKD", 2)>>
    /\ trades = <<Trade("ACC2", "AAA", 20240105, "SELL", 2, 3)>>
    /\ fifo.depleted["AAA"] = 0
    /\ fifo.warnings = <<WarningMsg("AAA")>>

Ended == proc.pc \in {"done", "raised", "rejected"}

WarningsFor(sym) == {i \in 1..Len(proc.warnings) : proc.warnings[i].symbol = sym}

\* C9 as claimed, on one statement with an opening holding of 2 AAA, no
\* average cost, and one sell of 2 at 3 in the target year: the finished
\* request has one Warning for AAA and a row with cost_missing, gain 2*3, loss 0
C9_EndToEnd ==
    (/\ Ended
     /\ parsed = <<Doc(Some(<<2024, 1>>), <<Trade("ACC1", "AAA", 20240105, "SELL", 2, 3)>>,
                       <<Holding("ACC1", "AAA", "HKD", 2)>>, "ACC1")>>
     /\ avg_costs = <<>>) =>
        /\ Cardinality(WarningsFor("AAA")) = 1
        /\ \E i \in 1..Len(proc.rows) :
               /\ proc.rows[i].symbol = "AAA"
               /\ proc.rows[i].cost_missing
               /\ proc.rows[i].gain = 2 * 3
               /\ proc.rows[i].loss = 0

\* the trades of the account's statements that have a period, in upload order
RECURSIVE PeriodTrades(_, _, _)
PeriodTrades(docs, n, acc) ==
    IF n = 0 THEN <<>>
    ELSE PeriodTrades(docs, n - 1, acc)
         \o (IF docs[n].account_id = acc /\ docs[n].month # None THEN docs[n].trades ELSE <<>>)

\* C10 as claimed: compute_realized is given no trade of a statement without
\* a period, and a batch in which no statement has a period is rejected
C10_HardStop ==
    /\ proc.pc = "fifo" => trades = PeriodTrades(parsed, Len(parsed), CurAccount)
    /\ (\A i \in 1..Len(parsed) : parsed[i].month = None) => proc.pc \in {"start", "rejected"}

\* C10, the second half alone
C10_BatchRejected ==
    (\A i \in 1..Len(parsed) : parsed[i].month = None) => proc.pc \in {"start", "rejected"}

----------------------------------------------------------------------------
(* Further claims about compute_realized and /process *)

WarningsUnder(ty) ==
    LET s == compute_realized(lots_at_call, trades, initial_lots, fallback_costs, ty)
    IN  [warnings |-> s.warnings, missing_cost_symbols |-> s.missing_cost_symbols]

\* C15, the returned values: a finished call returns the Warnings list and the
\* missing-cost set that every other value of target_year would have returned
C15_SameWarnings ==
    (fifo.pc = "done" /\ proc.pc = "none") =>
        \A ty \in TargetYears :
            WarningsUnder(ty) = [warnings |-> fifo.warnings,
                                 missing_cost_symbols |-> fifo.missing_cost_symbols]

\* C15, the step: a SELL of another year that outran the lots with no fallback
\* cost appends its Warning and marks the symbol, and realizes nothing
C15_OutOfYear ==
    (fifo.pc = "while" /\ ~(GtEps(fifo.remaining) /\ Queue # <<>>) /\ fifo.remaining > 0
        /\ ~GateOpen /\ Sym \notin DOMAIN fallback_costs) =>
        /\ fifo'.warnings = Append(fifo.warnings, WarningMsg(Sym))
        /\ fifo'.missing_cost_symbols = fifo.missing_cost_symbols \cup {Sym}
        /\ fifo'.realized = fifo.realized

\* C15: the Warnings list and the missing-cost set of compute_realized do not
\* depend on target_year; only the gain/loss contribution is year-gated
C15_WarningsUngated == [](C15_SameWarnings) /\ [][C15_OutOfYear]_vars

\* C15 witness: target year 2025, no lots, no fallback cost; the 2024 sell of
\* 2 at 3 realized nothing and still left its Warning and the missing-cost mark
C15_Witness ==
    /\ fifo.pc = "done"
    /\ proc.pc = "none"
    /\ target_year = Some(2025)
    /\ initial_lots = <<>>
    /\ fallback_costs = <<>>
    /\ trades = <<Trade("ACC1", "AAA", 20240105, "SELL", 2, 3)>>
    /\ fifo.warnings = <<WarningMsg("AAA")>>
    /\ fifo.missing_cost_symbols = {"AAA"}
    /\ fifo.realized["AAA"] = [gain |-> 0, loss |-> 0]

\* the cost the precedence rule gives: the account's entry when there is one,
\* else the wildcard entry when there is one, else none
ByPrecedence(costs, account_id, symbol, currency) ==
    IF <<account_id, symbol, currency>> \in DOMAIN costs
    THEN Some(costs[<<account_id, symbol, currency>>])
    ELSE IF <<"*", symbol, currency>> \in DOMAIN costs
    THEN Some(costs[<<"*", symbol, currency>>])
    ELSE None

\* the first account's opening holdings have been looked up (lines 174-196)
SeededFirst ==
    /\ proc.pc \in {"fifo", "raised"}
    /\ proc.k = 1
    /\ Len(parsed) = 1
    /\ Len(parsed[1].holdings) = 1
    /\ parsed[1].holdings[1].qty > 0

\* C14 as claimed: the opening holding gets a lot at the account's stored cost
\* whenever the table has an entry for the account (a stored 0 included), else
\* at the wildcard's stored cost; it is left without a lot only when the table
\* has neither entry
C14_Precedence ==
    SeededFirst =>
        LET h == parsed[1].holdings[1]
            e == ByPrecedence(avg_costs, h.account_id, h.symbol, h.currency)
        IN  /\ _cost_lookup(avg_costs, h.account_id, h.symbol, h.currency) = e
            /\ IF e = None
               THEN h.symbol \notin DOMAIN initial_lots
               ELSE /\ h.symbol \in DOMAIN initial_lots
                    /\ LotsView(lots_at_call, initial_lots)[h.symbol] =
                           <<[qty |-> h.qty, cost |-> Val(e)]>>
                    /\ fallback_costs[h.symbol] = Val(e)

\* C14 for tables without a stored 0 under the account key: there the
\* precedence is the claimed one
C14_NonZeroPrecedence ==
    (SeededFirst /\ Get(avg_costs, <<"ACC1", "AAA", "HKD">>) # Some(0)) =>
        LET h == parsed[1].holdings[1]
            e == ByPrecedence(avg_costs, h.account_id, h.symbol, h.currency)
        IN  /\ _cost_lookup(avg_costs, h.account_id, h.symbol, h.currency) = e
            /\ IF e = None
               THEN h.symbol \notin DOMAIN initial_lots
               ELSE /\ h.symbol \in DOMAIN initial_lots
                    /\ LotsView(lots_at_call, initial_lots)[h.symbol] =
                           <<[qty |-> h.qty, cost |-> Val(e)]>>
                    /\ fallback_costs[h.symbol] = Val(e)

\* a state in which the account's stored 0 was passed over for the wildcard's 2
C14_ZeroPassedOver ==
    /\ SeededFirst
    /\ proc.pc = "fifo"
    /\ avg_costs = (<<"ACC1", "AAA", "HKD">> :> 0) @@ (<<"*", "AAA", "HKD">> :> 2)
    /\ LotsView(lots_at_call, initial_lots)["AAA"] = <<[qty |-> 2, cost |-> 2]>>

----------------------------------------------------------------------------
(* Claims about the statement interpreters *)

\* the symbols of the explored texts that name an option contract (they match
\* the option pattern) and those that name a fund unit
OptionSymbols == {"AAA250117C0015", "A250117C0015"}
FundSymbols == {"FD"}

Emitted == {parse.trades[k].symbol : k \in 1..Len(parse.trades)}
Held == {parse.holdings[k].symbol : k \in 1..Len(parse.holdings)}

\* C11 as claimed: no interpreter emits a Trade or a Holding of an option
\* contract or of a fund unit, from any section
C11_CashEquityOnly ==
    /\ Emitted \cap (OptionSymbols \cup FundSymbols) = {}
    /\ Held \cap (OptionSymbols \cup FundSymbols) = {}

\* C11, where the code does filter: no fund unit is emitted anywhere, grammar A
\* holds no option contract and grammar B trades none
C11_WhereFiltered ==
    /\ (Emitted \cup Held) \cap FundSymbols = {}
    /\ ~text.futu => Held \cap OptionSymbols = {}
    /\ text.futu => Emitted \cap OptionSymbols = {}

\* an option bought in the trade-confirmation section of grammar A has been
\* emitted as a Trade
C11_OptionTraded ==
    /\ ~text.futu
    /\ parse.pc = "returned"
    /\ \E k \in 1..Len(parse.trades) :
           /\ parse.trades[k].symbol \in OptionSymbols
           /\ parse.trades[k].source = "chengjiao_danju:10000001"

\* C12 as claimed: every emitted Trade has a quantity above 0, a side BUY or
\* SELL and a currency of the recognized codes
C12_TradeInvariant ==
    \A k \in 1..Len(parse.trades) :
        /\ parse.trades[k].qty > 0
        /\ parse.trades[k].side \in {"BUY", "SELL"}
        /\ parse.trades[k].currency \in {"HKD", "USD", "CNH", "JPY", "SGD"}

\* C12 without the strictness: quantities are never negative (a parenthesised
\* quantity is emitted as its absolute value), sides and currencies are as claimed
C12_NonNegative ==
    \A k \in 1..Len(parse.trades) :
        /\ parse.trades[k].qty >= 0
        /\ parse.trades[k].side \in {"BUY", "SELL"}
        /\ parse.trades[k].currency \in {"HKD", "USD", "CNH", "JPY", "SGD"}

\* a quantity column "0" has been emitted as a Trade of quantity 0
C12_ZeroEmitted ==
    /\ parse.pc = "returned"
    /\ \E k \in 1..Len(parse.trades) : parse.trades[k].qty = 0

\* the lines of the two trade sections of the statement
ConfirmationsOf(t) ==
    _extract_section_lines(t.lines, "chengjiao_danju", {"hukou_biandong", "chihuo_jiecun"})
ActivityOf(t) == _extract_section_lines(t.lines, "hukou_biandong", {"chihuo_jiecun"})

Bought13(line) == line.side = "mairu"

\* C13, the interpreter: every line of the trade-confirmation section and
\* every line of the account-activity section has its own Trade, tagged with
\* its section and reference; nothing is merged
C13_EachAppearance ==
    parse.pc \in {"return", "returned"} =>
        LET c == ConfirmationsOf(text)
            a == ActivityOf(text)
        IN  /\ Len(parse.trades) = Len(c) + Len(a)
            /\ \A k \in 1..Len(c) :
                   /\ parse.trades[k].source = "chengjiao_danju:" \o c[k].ref
                   /\ parse.trades[k].symbol = "AAA"
                   /\ parse.trades[k].side = (IF Bought13(c[k]) THEN "BUY" ELSE "SELL")
                   /\ parse.trades[k].qty = Val(c[k].qty.digits)
            /\ \A k \in 1..Len(a) :
                   /\ parse.trades[Len(c) + k].source = "hukou_biandong:" \o a[k].ref
                   /\ parse.trades[Len(c) + k].symbol = "AAA"
                   /\ parse.trades[Len(c) + k].side = (IF Bought13(a[k]) THEN "BUY" ELSE "SELL")
                   /\ parse.trades[Len(c) + k].qty = Val(a[k].qty.digits)

\* the open quantity after the lines ls, each applied once, from open quantity q
RECURSIVE OpenAfter(_, _)
OpenAfter(ls, q) ==
    IF ls = <<>> THEN q
    ELSE OpenAfter(Tail(ls),
                   IF Bought13(ls[1]) THEN q + Val(ls[1].qty.digits)
                   ELSE IF q > Val(ls[1].qty.digits) THEN q - Val(ls[1].qty.digits) ELSE 0)

\* C13, the caller: compute_realized is called with the union of the two
\* lists, and its lot queue ends as it does when every appearance is applied
\* once (the account-activity lines carry the earlier date and come first)
C13_EachApplied ==
    (proc.pc = "fifo" /\ fifo.pc = "done") =>
        /\ trades = parse.trades
        /\ Open("AAA") = OpenAfter(ActivityOf(text) \o ConfirmationsOf(text), Seeded("AAA"))

\* C13: an execution listed in both trade sections of a grammar-A statement is
\* emitted once per appearance and applied to the lot queue once per appearance
C13_NoDeduplication == C13_EachAppearance /\ C13_EachApplied

\* C13 witness: one buy of 2 at 3, reference 10000001, listed in both
\* sections; two Trades with different source tags, and two lots of 2 at 3
C13_Witness ==
    /\ proc.pc = "fifo"
    /\ fifo.pc = "done"
    /\ Len(ConfirmationsOf(text)) = 1 /\ Bought13(ConfirmationsOf(text)[1])
    /\ Len(ActivityOf(text)) = 1 /\ Bought13(ActivityOf(text)[1])
    /\ Len(parse.trades) = 2
    /\ parse.trades[1].source = "chengjiao_danju:10000001"
    /\ parse.trades[2].source = "hukou_biandong:10000001"
    /\ parse.holdings = <<>>
    /\ QueueView(fifo, "AAA") = <<[qty |-> 2, cost |-> 3], [qty |-> 2, cost |-> 3]>>

====
